---------------------------- MODULE Spec2Model ----------------------------
(***************************************************************************)
(* A model of the public surface of package regexp2 (src/regexp.go): the   *)
(* match chain FindStringMatch / FindNextMatch, the byte-to-scalar input   *)
(* adapter, the "find all" and "replace all" helpers ported from Go's      *)
(* regexp package, QuoteMeta, GroupNumberFromName and the runner cache.    *)
(*                                                                         *)
(* Strings are sequences of bytes (0..255), rune slices are sequences of   *)
(* scalar values.  A compiled pattern is abstracted, for one input text,   *)
(* by the function pat: pat[p] is the length of the match the backtracking *)
(* VM finds when it is started at scalar position p, or -1 when the        *)
(* attempt at p fails.  Every deterministic pattern whose attempts do not  *)
(* depend on where the scan began induces such a function.                 *)
(***************************************************************************)
EXTENDS Integers, Sequences, FiniteSets, TLC

VARIABLES
    s,        \* the input string of the call, a sequence of bytes
    re,       \* the Regexp: its read-only fields after Compile
    pc,       \* position of the caller
    m,        \* the *Match the caller holds (chain specification)
    startAt,  \* the start position FindNextMatch last handed to re.run
    hist,     \* the spans the chain has returned so far
    out,      \* what the last public operation returned
    muRun,    \* Regexp.muRun: 0 when free, else the goroutine holding it
    runner,   \* Regexp.runner: the cache of idle runners
    gpc,      \* position of every goroutine inside re.run
    held,     \* the runner every goroutine is matching with (0: none)
    nAlloc    \* number of runners allocated so far

vars == <<s, re, pc, m, startAt, hist, out, muRun, runner, gpc, held, nAlloc>>

----------------------------------------------------------------------------
(* Bounds of the model. *)

\* longest input string, in bytes
MaxBytes == 3

----------------------------------------------------------------------------
(* Strings and scalars. *)

\* 'a', and the two bytes 0xC3 0xA9 that encode U+00E9: every string over
\* them is a mix of one-byte scalars, two-byte scalars and invalid bytes.
Bytes == {97, 195, 169}

RECURSIVE SeqsUpTo(_, _)
SeqsUpTo(S, n) ==
    IF n = 0 THEN {<<>>}
    ELSE LET shorter == SeqsUpTo(S, n - 1)
         IN  shorter \cup {Append(q, x) : q \in {r \in shorter : Len(r) = n - 1}, x \in S}

\* the Go slice expression q[a:b]
Slice(q, a, b) == SubSeq(q, a + 1, b)

\* U+FFFD, what Go's decoder yields for an invalid byte
RuneError == 65533

\* One step of "for strIdx, r := range s" at byte offset i (0-based): the
\* scalar decoded there and its width in bytes.  One- and two-byte encodings
\* are decoded; any other byte is invalid here and yields RuneError, width 1.
DecodeRune(str, i) ==
    LET b0 == str[i + 1]
    IN  IF b0 < 128 THEN [r |-> b0, width |-> 1]
        ELSE IF /\ b0 >= 194 /\ b0 <= 223
                /\ i + 2 <= Len(str)
                /\ str[i + 2] >= 128 /\ str[i + 2] <= 191
             THEN [r |-> (b0 - 192) * 64 + (str[i + 2] - 128), width |-> 2]
             ELSE [r |-> RuneError, width |-> 1]

RECURSIVE RunesFrom(_, _)
RunesFrom(str, i) ==
    IF i >= Len(str) THEN <<>>
    ELSE LET d == DecodeRune(str, i)
         IN  <<d.r>> \o RunesFrom(str, i + d.width)

getRunes(str) == RunesFrom(str, 0)

\* the byte offsets at which "range s" starts a scalar, in order
RECURSIVE RuneStarts(_, _)
RuneStarts(str, i) ==
    IF i >= Len(str) THEN <<>>
    ELSE <<i>> \o RuneStarts(str, i + DecodeRune(str, i).width)

\* the byte offset of scalar number k of str (k = number of scalars: Len(str))
ByteOffset(str, k) ==
    LET st == RuneStarts(str, 0)
    IN  IF k < Len(st) THEN st[k + 1] ELSE Len(str)


Strings == SeqsUpTo(Bytes, MaxBytes)

----------------------------------------------------------------------------
(* The Regexp and the matcher behind re.run. *)

\* RegexOptions: RightToLeft = 0x0040 is the only option the surface reads.
RightToLeft(rex) == rex.rtl

\* pat[p] is -1 or the length of the match found from position p; a match
\* stays inside the text: it extends to the right of p, or to its left when
\* the pattern is compiled RightToLeft.
Patterns(n, rtl) ==
    {f \in [0..n -> -1..n] : \A p \in 0..n : f[p] <= (IF rtl THEN p ELSE n - p)}

\* the nil *Match
Nil == [Index |-> -1, Length |-> -1, textpos |-> -1, text |-> <<>>]

\* The Match the runner builds for an attempt that succeeded from position p:
\* Index and Length are in scalars, textpos is where the VM's cursor stopped
\* (the right end of the match, or its left end when scanning RightToLeft).
MatchAt(rex, input, p) ==
    IF RightToLeft(rex)
    THEN [Index |-> p - rex.pat[p], Length |-> rex.pat[p],
          textpos |-> p - rex.pat[p], text |-> input]
    ELSE [Index |-> p, Length |-> rex.pat[p],
          textpos |-> p + rex.pat[p], text |-> input]

\* runner.scan: try the candidate start positions from textstart on, to the
\* right (or to the left when RightToLeft); the first success is the match.
scan(rex, input, textstart) ==
    LET cands == IF RightToLeft(rex)
                 THEN {p \in 0..textstart : rex.pat[p] >= 0}
                 ELSE {p \in textstart..Len(input) : rex.pat[p] >= 0}
        first == IF RightToLeft(rex)
                 THEN CHOOSE p \in cands : \A q \in cands : q <= p
                 ELSE CHOOSE p \in cands : \A q \in cands : p <= q
    IN  IF cands = {} THEN Nil ELSE MatchAt(rex, input, first)

\* re.run(quick, textstart, input): a negative textstart means "not pinned":
\* the scan starts at the beginning of the text, or at its end when
\* RightToLeft.  fail: the VM observes the deadline exceeded during this call.
run(rex, quick, textstart, input, fail) ==
    IF fail THEN [m |-> Nil, err |-> TRUE]
    ELSE LET ts == IF textstart < 0
                   THEN (IF RightToLeft(rex) THEN Len(input) ELSE 0)
                   ELSE textstart
         IN  [m |-> scan(rex, input, ts), err |-> FALSE]

FindStringMatch(rex, str, fail) == run(rex, FALSE, -1, getRunes(str), fail)

\* The loop of getRunesAndStart (lines 229-239): ret and runeIdx after the
\* range loop has reached byte offset strIdx.
RECURSIVE getRunesAndStartLoop(_, _, _, _, _)
getRunesAndStartLoop(str, strIdx, sa, ret, runeIdx) ==
    IF strIdx >= Len(str) THEN [runes |-> ret, start |-> runeIdx]
    ELSE LET d == DecodeRune(str, strIdx)
         IN  getRunesAndStartLoop(str, strIdx + d.width, sa, Append(ret, d.r),
                                  IF strIdx = sa THEN Len(ret) ELSE runeIdx)

getRunesAndStart(rex, str, sa) ==
    IF sa < 0
    THEN [runes |-> getRunes(str),
          start |-> IF RightToLeft(rex) THEN Len(getRunes(str)) ELSE 0]
    ELSE getRunesAndStartLoop(str, 0, sa, <<>>, -1)

\* FindStringMatchStartingAt: posErr is "" or the start-position error;
\* textstart is the position handed to re.run when there is none.
FindStringMatchStartingAt(rex, str, sa, failAt) ==
    IF sa > Len(str)
    THEN [m |-> Nil, err |-> TRUE, timedOut |-> FALSE, textstart |-> -1,
          posErr |-> "startAt must be less than the length of the input string"]
    ELSE LET rs == getRunesAndStart(rex, str, sa)
         IN  IF rs.start = -1
             THEN [m |-> Nil, err |-> TRUE, timedOut |-> FALSE, textstart |-> -1,
                   posErr |-> "startAt must align to the start of a valid rune in the input string"]
             ELSE LET r == run(rex, FALSE, rs.start, rs.runes, failAt = 1)
                  IN  [m |-> r.m, err |-> r.err, timedOut |-> r.err,
                       textstart |-> rs.start, posErr |-> ""]

\* Lines 196-207 of FindNextMatch: whether the matcher is called, and the
\* start position it is handed.
NextStart(rex, mm) ==
    IF mm.Length = 0
    THEN IF mm.textpos = Len(mm.text)
         THEN [search |-> FALSE, startAt |-> mm.textpos]
         ELSE [search |-> TRUE,
               startAt |-> IF RightToLeft(rex) THEN mm.textpos - 1 ELSE mm.textpos + 1]
    ELSE [search |-> TRUE, startAt |-> mm.textpos]

FindNextMatch(rex, mm, fail) ==
    IF mm = Nil THEN [m |-> Nil, err |-> FALSE]
    ELSE LET st == NextStart(rex, mm)
         IN  IF ~st.search THEN [m |-> Nil, err |-> FALSE]
             ELSE run(rex, FALSE, st.startAt, mm.text, fail)

Span(mm) == <<mm.Index, mm.Length>>

----------------------------------------------------------------------------
(* The match chain: m0 = FindStringMatch(s), m(k+1) = FindNextMatch(mk),    *)
(* under the default MatchTimeout ("forever").                              *)

\* startAt before FindNextMatch has been called on a match
NoStart == [called |-> FALSE, search |-> FALSE, startAt |-> 0, prev |-> Nil]

PoolIdle ==
    /\ muRun = 0 /\ runner = <<>> /\ gpc = <<>> /\ held = <<>> /\ nAlloc = 0

PoolUnchanged == UNCHANGED <<muRun, runner, gpc, held, nAlloc>>

NoOut == [op |-> "none"]

\* the Regexps Compile can return for a text: either direction, any pattern
Regexps(str) ==
    UNION {{[rtl |-> r, pat |-> f, capsize |-> 1, named |-> FALSE, capnames |-> <<>>] :
               f \in Patterns(Len(getRunes(str)), r)} : r \in BOOLEAN}

InitChain ==
    /\ s \in Strings
    /\ re \in Regexps(s)
    /\ pc = "start"
    /\ m = Nil
    /\ startAt = NoStart
    /\ hist = <<>>
    /\ out = NoOut
    /\ PoolIdle

CallFindStringMatch ==
    /\ pc = "start"
    /\ LET r == FindStringMatch(re, s, FALSE)
       IN  /\ m' = r.m
           /\ hist' = IF r.m = Nil THEN <<>> ELSE <<Span(r.m)>>
    /\ pc' = "chain"
    /\ startAt' = NoStart
    /\ UNCHANGED <<s, re, out>>
    /\ PoolUnchanged

\* A chain that ends has at most one match per start position, so the caller
\* is followed for one call more than that and no further.
CallFindNextMatch ==
    /\ pc = "chain"
    /\ Len(hist) <= Len(getRunes(s)) + 1
    /\ LET r == FindNextMatch(re, m, FALSE)
       IN  /\ m' = r.m
           /\ hist' = IF r.m = Nil THEN hist ELSE Append(hist, Span(r.m))
    /\ startAt' = IF m = Nil THEN NoStart
                  ELSE [called |-> TRUE, search |-> NextStart(re, m).search,
                        startAt |-> NextStart(re, m).startAt, prev |-> m]
    /\ pc' = IF m = Nil THEN "done" ELSE "chain"
    /\ UNCHANGED <<s, re, out>>
    /\ PoolUnchanged

NextChain == CallFindStringMatch \/ CallFindNextMatch

SpecChain == InitChain /\ [][NextChain]_vars

----------------------------------------------------------------------------
(* The public operations, each a pure function of the Regexp, the input and *)
(* failAt: the number of the Find*Match call during which the VM observes   *)
(* its deadline exceeded (0: never).                                        *)

\* Match.Groups() of a pattern without explicit groups: group 0, the match.
Groups(mm) == <<[Index |-> mm.Index, Length |-> mm.Length]>>

\* MatchString: (m != nil, nil), or (false, err).
MatchString(rex, str, failAt) ==
    LET r == run(rex, TRUE, -1, getRunes(str), failAt = 1)
    IN  [val |-> (~r.err /\ r.m # Nil), err |-> r.err, timedOut |-> r.err]

MatchRunes(rex, runes, failAt) ==
    LET r == run(rex, TRUE, -1, runes, failAt = 1)
    IN  [val |-> (~r.err /\ r.m # Nil), err |-> r.err, timedOut |-> r.err]

\* FindStringIndex: "m, _ := re.FindStringMatch(s)"; the result has no error.
FindStringIndex(rex, str, failAt) ==
    LET r == FindStringMatch(rex, str, failAt = 1)
        groups == Groups(r.m)
    IN  [val |-> IF r.m # Nil /\ Len(groups) > 0
                 THEN <<groups[1].Index, groups[1].Index + groups[1].Length>>
                 ELSE <<>>,
         err |-> FALSE, timedOut |-> r.err]

RECURSIVE GroupPairs(_, _)
GroupPairs(groups, i) ==
    IF i > Len(groups) THEN <<>>
    ELSE <<groups[i].Index, groups[i].Index + groups[i].Length>> \o GroupPairs(groups, i + 1)

FindStringSubmatchIndex(rex, str, failAt) ==
    LET r == FindStringMatch(rex, str, failAt = 1)
    IN  [val |-> IF r.m # Nil THEN GroupPairs(Groups(r.m), 1) ELSE <<>>,
         err |-> FALSE, timedOut |-> r.err]

\* The loop of FindAllStringIndex (lines 386-398).  st: m, c, result, the
\* number of Find*Match calls made, and whether one of them returned an error.
RECURSIVE FindAllStringIndexLoop(_, _, _, _)
FindAllStringIndexLoop(rex, n, failAt, st) ==
    IF st.m # Nil /\ st.c < n
    THEN LET groups == Groups(st.m)
             r == FindNextMatch(rex, st.m, failAt = st.calls + 1)
         IN  FindAllStringIndexLoop(rex, n, failAt,
                 [m |-> r.m, c |-> st.c + 1,
                  result |-> IF Len(groups) > 0
                             THEN Append(st.result,
                                     <<groups[1].Index, groups[1].Index + groups[1].Length>>)
                             ELSE st.result,
                  calls |-> st.calls + 1, timedOut |-> st.timedOut \/ r.err])
    ELSE st

FindAllStringIndex(rex, str, n, failAt) ==
    LET cap == IF n < 0 THEN Len(str) + 1 ELSE n
        r   == FindStringMatch(rex, str, failAt = 1)
        st  == FindAllStringIndexLoop(rex, cap, failAt,
                   [m |-> r.m, c |-> 0, result |-> <<>>, calls |-> 1, timedOut |-> r.err])
    IN  [val |-> st.result, err |-> FALSE, timedOut |-> st.timedOut, last |-> st.m]

\* The loop of FindAllStringSubmatchIndex (lines 486-503).
RECURSIVE FindAllStringSubmatchIndexLoop(_, _, _, _)
FindAllStringSubmatchIndexLoop(rex, n, failAt, st) ==
    IF st.m # Nil /\ st.c < n
    THEN LET r == FindNextMatch(rex, st.m, failAt = st.calls + 1)
         IN  FindAllStringSubmatchIndexLoop(rex, n, failAt,
                 [m |-> r.m, c |-> st.c + 1,
                  result |-> Append(st.result, GroupPairs(Groups(st.m), 1)),
                  calls |-> st.calls + 1, timedOut |-> st.timedOut \/ r.err])
    ELSE st

FindAllStringSubmatchIndex(rex, str, n, failAt) ==
    LET cap == IF n < 0 THEN Len(str) + 1 ELSE n
        r   == FindStringMatch(rex, str, failAt = 1)
        st  == FindAllStringSubmatchIndexLoop(rex, cap, failAt,
                   [m |-> r.m, c |-> 0, result |-> <<>>, calls |-> 1, timedOut |-> r.err])
    IN  [val |-> st.result, err |-> FALSE, timedOut |-> st.timedOut, last |-> st.m]

\* string(b) keeps the bytes
FindAllSubmatchIndex(rex, b, n, failAt) == FindAllStringSubmatchIndex(rex, b, n, failAt)

\* The caller's repl: the identity, or one that puts its argument in brackets.
ReplKinds == {"identity", "bracket"}

Repl(kind, b) == IF kind = "identity" THEN b ELSE <<91>> \o b \o <<93>>

\* utf8.DecodeRuneInString(src[searchPos:]): the width alone; 0 at the end.
DecodeWidth(src, searchPos) ==
    IF searchPos >= Len(src) THEN 0 ELSE DecodeRune(src, searchPos).width

\* The loop of replaceAll (lines 545-575) with ReplaceAllFunc's closure.
\* st.status: "ok", "panic" (a slice expression out of range) or "diverges"
\* (more iterations than a chain that ends can have).  st.args: the byte
\* slices repl was called with, each with the match it was called for.
RECURSIVE replaceAllLoop(_, _, _, _, _)
replaceAllLoop(rex, src, kind, failAt, st) ==
    IF st.m = Nil THEN st
    ELSE IF st.iters > Len(st.m.text) + 1 THEN [st EXCEPT !.status = "diverges"]
    ELSE
    LET a0 == Groups(st.m)[1].Index
        a1 == Groups(st.m)[1].Index + Groups(st.m)[1].Length
    IN  IF \/ st.lastMatchEnd > a0 \/ a0 > Len(src)      \* src[lastMatchEnd:a[0]]
           \/ a0 > a1 \/ a1 > Len(src)                   \* src[match[0]:match[1]]
           \/ st.searchPos > Len(src)                    \* src[searchPos:]
        THEN [st EXCEPT !.status = "panic"]
        ELSE
        LET buf1   == st.buf \o Slice(src, st.lastMatchEnd, a0)
            doRepl == a1 > st.lastMatchEnd \/ a0 = 0
            buf2   == IF doRepl THEN buf1 \o Repl(kind, Slice(src, a0, a1)) ELSE buf1
            width  == DecodeWidth(src, st.searchPos)
            pos    == IF st.searchPos + width > a1 THEN st.searchPos + width
                      ELSE IF st.searchPos + 1 > a1 THEN st.searchPos + 1
                      ELSE a1
            r      == FindNextMatch(rex, st.m, failAt = st.calls + 1)
        IN  replaceAllLoop(rex, src, kind, failAt,
                [m |-> r.m, lastMatchEnd |-> a1, searchPos |-> pos, buf |-> buf2,
                 args |-> IF doRepl
                          THEN Append(st.args, [arg |-> Slice(src, a0, a1), of |-> st.m])
                          ELSE st.args,
                 calls |-> st.calls + 1, timedOut |-> st.timedOut \/ r.err,
                 iters |-> st.iters + 1, status |-> "ok"])

replaceAll(rex, src, kind, failAt) ==
    LET r  == FindStringMatch(rex, src, failAt = 1)
        st == replaceAllLoop(rex, src, kind, failAt,
                  [m |-> r.m, lastMatchEnd |-> 0, searchPos |-> 0, buf |-> <<>>,
                   args |-> <<>>, calls |-> 1, timedOut |-> r.err, iters |-> 0,
                   status |-> "ok"])
    IN  [val |-> IF st.status = "ok" /\ st.lastMatchEnd <= Len(src)
                 THEN st.buf \o Slice(src, st.lastMatchEnd, Len(src))
                 ELSE <<>>,
         err |-> FALSE, timedOut |-> st.timedOut,
         status |-> IF st.status = "ok" /\ st.lastMatchEnd > Len(src) THEN "panic"
                    ELSE st.status,
         args |-> st.args]

ReplaceAllFunc(rex, src, kind, failAt) == replaceAll(rex, src, kind, failAt)

----------------------------------------------------------------------------
(* One public operation on one Regexp and one input, with MatchTimeout set. *)

\* latest Find*Match call that may time out
MaxFailAt == 2

FailAts == 0..MaxFailAt

\* the counts n a caller passes to the "find all" operations
Counts == -1..(MaxBytes + 1)

\* the byte start positions a caller passes to FindStringMatchStartingAt
StartAts == -1..(MaxBytes + 1)

InitOps ==
    /\ s \in Strings
    /\ re \in Regexps(s)
    /\ pc = "start"
    /\ m = Nil
    /\ startAt = NoStart
    /\ hist = <<>>
    /\ out = NoOut
    /\ PoolIdle

Returns(o) ==
    /\ pc = "start"
    /\ pc' = "done"
    /\ out' = o
    /\ UNCHANGED <<s, re, m, startAt, hist>>
    /\ PoolUnchanged

CallMatchString ==
    \E f \in FailAts :
        Returns([op |-> "MatchString", failAt |-> f, ret |-> MatchString(re, s, f)])

CallMatchRunes ==
    \E f \in FailAts :
        Returns([op |-> "MatchRunes", failAt |-> f, ret |-> MatchRunes(re, getRunes(s), f)])

CallFindStringIndex ==
    \E f \in FailAts :
        Returns([op |-> "FindStringIndex", failAt |-> f, ret |-> FindStringIndex(re, s, f)])

CallFindStringSubmatchIndex ==
    \E f \in FailAts :
        Returns([op |-> "FindStringSubmatchIndex", failAt |-> f,
                 ret |-> FindStringSubmatchIndex(re, s, f)])

CallFindAllStringIndex ==
    \E f \in FailAts, n \in Counts :
        Returns([op |-> "FindAllStringIndex", failAt |-> f, n |-> n,
                 ret |-> FindAllStringIndex(re, s, n, f)])

CallFindAllStringSubmatchIndex ==
    \E f \in FailAts, n \in Counts :
        Returns([op |-> "FindAllStringSubmatchIndex", failAt |-> f, n |-> n,
                 ret |-> FindAllStringSubmatchIndex(re, s, n, f)])

CallFindAllSubmatchIndex ==
    \E f \in FailAts, n \in Counts :
        Returns([op |-> "FindAllSubmatchIndex", failAt |-> f, n |-> n,
                 ret |-> FindAllSubmatchIndex(re, s, n, f)])

CallReplaceAllFunc ==
    \E f \in FailAts, k \in ReplKinds :
        Returns([op |-> "ReplaceAllFunc", failAt |-> f, repl |-> k,
                 ret |-> ReplaceAllFunc(re, s, k, f)])

CallFindStringMatchStartingAt ==
    \E f \in FailAts, sa \in StartAts :
        Returns([op |-> "FindStringMatchStartingAt", failAt |-> f, sa |-> sa,
                 ret |-> FindStringMatchStartingAt(re, s, sa, f)])

NextOps ==
    \/ CallMatchString
    \/ CallMatchRunes
    \/ CallFindStringIndex
    \/ CallFindStringSubmatchIndex
    \/ CallFindAllStringIndex
    \/ CallFindAllStringSubmatchIndex
    \/ CallFindAllSubmatchIndex
    \/ CallReplaceAllFunc
    \/ CallFindStringMatchStartingAt

SpecOps == InitOps /\ [][NextOps]_vars

----------------------------------------------------------------------------
(* Claims about the match chain. *)

\* C1: no FindNextMatch call returns a match whose span (index, length)
\* equals the span of the match it was given, for either direction.
C1_NeverSameSpanTwice ==
    [][(pc = "chain" /\ m # Nil /\ m' # Nil) => Span(m') # Span(m)]_vars

\* C2: FindNextMatch searches from the end position of a non-empty match and
\* one scalar further in the scanning direction after a zero-width match; the
\* start position it hands to the matcher is inside 0..len(text); it returns
\* nil without searching only when the scanning direction has no next
\* position; and a left-to-right pattern that matches the empty string at
\* every position of an n-scalar text yields the n+1 matches at 0..n.
C2_NextStartInsideText ==
    /\ startAt.called =>
         LET prev == startAt.prev
             n    == Len(prev.text)
             step == IF RightToLeft(re) THEN -1 ELSE 1
             want == IF prev.Length = 0 THEN prev.textpos + step ELSE prev.textpos
         IN  /\ startAt.search => startAt.startAt = want /\ startAt.startAt \in 0..n
             /\ ~startAt.search => want \notin 0..n
    /\ (pc = "done" /\ ~RightToLeft(re) /\ \A p \in DOMAIN re.pat : re.pat[p] = 0) =>
         hist = [k \in 1..(Len(getRunes(s)) + 1) |-> <<k - 1, 0>>]

----------------------------------------------------------------------------
(* Claims about the public operations. *)

Done(ops) == pc = "done" /\ out.op \in ops

\* The first k matches of the chain FindStringMatch(str), FindNextMatch, ...
\* under the default timeout, stopping at the first nil.
RECURSIVE ChainFrom(_, _, _)
ChainFrom(rex, mm, k) ==
    IF mm = Nil \/ k = 0 THEN <<>>
    ELSE <<mm>> \o ChainFrom(rex, FindNextMatch(rex, mm, FALSE).m, k - 1)

ChainPrefix(rex, str, k) == ChainFrom(rex, FindStringMatch(rex, str, FALSE).m, k)

\* the byte offsets in str of the scalars a match spans
ByteSpan(str, mm) ==
    <<ByteOffset(str, mm.Index), ByteOffset(str, mm.Index + mm.Length)>>

\* C3: an error returned by the matcher is surfaced by every public
\* operation that invokes it: when a Find*Match call inside the operation
\* returned an error, the operation returns an error to its caller.
C3_ErrorSurfaced ==
    Done({"MatchString", "MatchRunes", "FindStringIndex", "FindStringSubmatchIndex",
          "FindAllStringIndex", "FindAllStringSubmatchIndex", "FindAllSubmatchIndex",
          "ReplaceAllFunc"})
        => (out.ret.timedOut => out.ret.err)

\* C4: for startAt >= 0, FindStringMatchStartingAt returns a start-position
\* error exactly when startAt > len(s) or startAt falls inside a multi-byte
\* scalar; otherwise (startAt = len(s) included) the matcher runs from the
\* number of scalars encoded in s[:startAt].
C4_StartPositionError ==
    (Done({"FindStringMatchStartingAt"}) /\ out.sa >= 0) =>
        LET inside == /\ out.sa < Len(s)
                      /\ \A i \in 1..Len(RuneStarts(s, 0)) : RuneStarts(s, 0)[i] # out.sa
        IN  /\ (out.ret.posErr # "") <=> (out.sa > Len(s) \/ inside)
            /\ (out.ret.posErr = "") =>
                   out.ret.textstart = Len(getRunes(Slice(s, 0, out.sa)))

\* C5, for the left-to-right Regexps it covers: ReplaceAllFunc slices src in
\* range and in order, calls repl with exactly the bytes of the match, and
\* with repl the identity returns src, for every src, multi-byte scalars
\* included.
C5_ReplaceAllFunc ==
    (Done({"ReplaceAllFunc"}) /\ ~RightToLeft(re) /\ ~out.ret.timedOut) =>
        /\ out.ret.status = "ok"
        /\ \A i \in 1..Len(out.ret.args) :
               LET b == ByteSpan(s, out.ret.args[i].of)
               IN  out.ret.args[i].arg = Slice(s, b[1], b[2])
        /\ out.repl = "identity" => out.ret.val = s

\* C8: FindStringIndex returns nil when there is no match and otherwise the
\* byte offsets of the match in s; so does FindAllStringIndex for each match.
C8_ByteOffsets ==
    /\ (Done({"FindStringIndex"}) /\ ~out.ret.timedOut) =>
           LET first == FindStringMatch(re, s, FALSE).m
           IN  out.ret.val = IF first = Nil THEN <<>> ELSE ByteSpan(s, first)
    /\ (Done({"FindAllStringIndex"}) /\ ~out.ret.timedOut) =>
           LET chain == ChainPrefix(re, s, Len(out.ret.val))
           IN  /\ Len(chain) = Len(out.ret.val)
               /\ \A i \in 1..Len(chain) : out.ret.val[i] = ByteSpan(s, chain[i])

\* C10: the "find all" operations return the first min(n, chain length)
\* matches of the chain when n >= 0 and every match of the chain when n < 0:
\* the chain has no further match when the result is cut by len(s)+1.
C10_FindAllIsChain ==
    (Done({"FindAllStringIndex", "FindAllStringSubmatchIndex"}) /\ ~out.ret.timedOut) =>
        LET want == IF out.n >= 0 THEN ChainPrefix(re, s, out.n)
                    ELSE ChainPrefix(re, s, Len(out.ret.val) + 1)
        IN  /\ Len(out.ret.val) = Len(want)
            /\ \A i \in 1..Len(want) :
                   out.ret.val[i] = <<want[i].Index, want[i].Index + want[i].Length>>

----------------------------------------------------------------------------
(* QuoteMeta. *)

\* "var specialBytes [16]byte": the file gives it no initial value and has no
\* init function that sets it, so it holds Go's zero value.
specialBytes == [i \in 0..15 |-> 0]

\* bit k of x
Bit(x, k) == (x \div (2 ^ k)) % 2

\* special(b): b < utf8.RuneSelf && specialBytes[b%16]&(1<<(b/16)) != 0
special(b) == b < 128 /\ Bit(specialBytes[b % 16], b \div 16) # 0

\* the first loop of QuoteMeta: the index of the first special byte from i on
RECURSIVE FirstSpecial(_, _)
FirstSpecial(str, i) ==
    IF i < Len(str) /\ ~special(str[i + 1]) THEN FirstSpecial(str, i + 1) ELSE i

\* the second loop of QuoteMeta: the bytes written to b from index i on
RECURSIVE QuoteFrom(_, _)
QuoteFrom(str, i) ==
    IF i >= Len(str) THEN <<>>
    ELSE (IF special(str[i + 1]) THEN <<92, str[i + 1]>> ELSE <<str[i + 1]>>)
             \o QuoteFrom(str, i + 1)

QuoteMeta(str) ==
    LET i == FirstSpecial(str, 0)
    IN  IF i >= Len(str) THEN str
        ELSE Slice(str, 0, i) \o QuoteFrom(str, i)

\* 'a', '.', '$', '\' and a byte that is no ASCII
QuoteBytes == {97, 46, 36, 92, 195}

\* a Regexp for the operations that read no pattern
NoRegexp == [rtl |-> FALSE, pat |-> <<>>, capsize |-> 1, named |-> FALSE, capnames |-> <<>>]

InitQuote ==
    /\ s \in SeqsUpTo(QuoteBytes, MaxBytes)
    /\ re = NoRegexp
    /\ pc = "start"
    /\ m = Nil
    /\ startAt = NoStart
    /\ hist = <<>>
    /\ out = NoOut
    /\ PoolIdle

CallQuoteMeta == Returns([op |-> "QuoteMeta", ret |-> QuoteMeta(s)])

NextQuote == CallQuoteMeta

SpecQuote == InitQuote /\ [][NextQuote]_vars

\* the regular expression metacharacters \ . + * ? ( ) | [ ] { } ^ $
MetaBytes == {92, 46, 43, 42, 63, 40, 41, 124, 91, 93, 123, 125, 94, 36}

RECURSIVE Escaped(_)
Escaped(str) ==
    IF str = <<>> THEN <<>>
    ELSE (IF Head(str) \in MetaBytes THEN <<92, Head(str)>> ELSE <<Head(str)>>)
             \o Escaped(Tail(str))

\* C6: QuoteMeta(s) is s with a backslash inserted before every byte that is
\* a metacharacter and every other byte unchanged; it differs from s when s
\* holds a metacharacter.
C6_QuoteMetaEscapes ==
    Done({"QuoteMeta"}) =>
        /\ out.ret = Escaped(s)
        /\ (\E i \in 1..Len(s) : s[i] \in MetaBytes) => out.ret # s

----------------------------------------------------------------------------
(* GroupNumberFromName.  Go's int is 64 bits wide: it is kept as four     *)
(* 16-bit limbs, least significant first, so that result*10 + digit wraps *)
(* modulo 2^64 as the machine's does.                                     *)

Limb == 2 ^ 16

Zero64 == <<0, 0, 0, 0>>

\* (x * 10 + d) modulo 2^64
MulAdd64(x, d) ==
    LET l1 == x[1] * 10 + d
        l2 == x[2] * 10 + (l1 \div Limb)
        l3 == x[3] * 10 + (l2 \div Limb)
        l4 == x[4] * 10 + (l3 \div Limb)
    IN  <<l1 % Limb, l2 % Limb, l3 % Limb, l4 % Limb>>

\* result >= 0 && result < c, for the signed value of x and 0 <= c < 2^16
InRange64(x, c) == x[4] < Limb \div 2 /\ x[4] = 0 /\ x[3] = 0 /\ x[2] = 0 /\ x[1] < c

\* The loop of GroupNumberFromName (lines 342-351) from byte i on: the
\* result, or "bad" set when a byte is no digit.
RECURSIVE ParseDigits(_, _, _)
ParseDigits(name, i, result) ==
    IF i >= Len(name) THEN [bad |-> FALSE, result |-> result]
    ELSE LET ch == name[i + 1]
         IN  IF ch > 57 \/ ch < 48 THEN [bad |-> TRUE, result |-> result]
             ELSE ParseDigits(name, i + 1, MulAdd64(result, ch - 48))

GroupNumberFromName(rex, name) ==
    IF rex.named
    THEN IF name \in DOMAIN rex.capnames THEN rex.capnames[name] ELSE -1
    ELSE LET r == ParseDigits(name, 0, Zero64)
         IN  IF r.bad THEN -1
             ELSE IF InRange64(r.result, rex.capsize) THEN r.result[1]
             ELSE -1

\* largest capture array of the model
MaxCapsize == 2

\* longest short name
MaxNameLen == 3

\* '0', '1', '9' and 'x'
NameBytes == {48, 49, 57, 120}

\* "9223372036854775808" (2^63) and "18446744073709551616" (2^64)
LongNames ==
    { <<57, 50, 50, 51, 51, 55, 50, 48, 51, 54, 56, 53, 52, 55, 55, 53, 56, 48, 56>>,
      <<49, 56, 52, 52, 54, 55, 52, 52, 48, 55, 51, 55, 48, 57, 53, 53, 49, 54, 49, 54>> }

Names == SeqsUpTo(NameBytes, MaxNameLen) \cup LongNames

\* Regexps without named groups (capnames == nil), and the Regexp of a
\* pattern such as (?<x>a): capnames = {"0": 0, "x": 1}.
GroupRegexps ==
    {[rtl |-> FALSE, pat |-> <<>>, capsize |-> c, named |-> FALSE, capnames |-> <<>>] :
        c \in 1..MaxCapsize}
    \cup {[rtl |-> FALSE, pat |-> <<>>, capsize |-> 2, named |-> TRUE,
           capnames |-> [n \in {<<48>>, <<120>>} |-> IF n = <<48>> THEN 0 ELSE 1]]}

InitGroup ==
    /\ s \in Names
    /\ re \in GroupRegexps
    /\ pc = "start"
    /\ m = Nil
    /\ startAt = NoStart
    /\ hist = <<>>
    /\ out = NoOut
    /\ PoolIdle

CallGroupNumberFromName ==
    Returns([op |-> "GroupNumberFromName", ret |-> GroupNumberFromName(re, s)])

NextGroup == CallGroupNumberFromName

SpecGroup == InitGroup /\ [][NextGroup]_vars

RECURSIVE StripZeros(_)
StripZeros(name) ==
    IF name # <<>> /\ Head(name) = 48 THEN StripZeros(Tail(name)) ELSE name

\* The group a decimal name denotes among capsize < 10 groups, or -1: the
\* numeric value of a non-empty digit string, when that is below capsize.
NumberNamed(name, capsize) ==
    IF name = <<>> \/ \E i \in 1..Len(name) : name[i] < 48 \/ name[i] > 57 THEN -1
    ELSE LET t == StripZeros(name)
         IN  IF t = <<>> THEN 0
             ELSE IF Len(t) = 1 /\ t[1] - 48 < capsize THEN t[1] - 48
             ELSE -1

\* C7: GroupNumberFromName returns -1 for every name that is no group name:
\* without named groups it returns k only for a non-empty digit string of
\* value k < capsize, and -1 for the empty name, for a name with a non-digit
\* and for a digit string of value >= capsize, however large.
C7_UnknownNameIsMinusOne ==
    Done({"GroupNumberFromName"}) =>
        IF re.named
        THEN s \notin DOMAIN re.capnames => out.ret = -1
        ELSE out.ret = NumberNamed(s, re.capsize)

----------------------------------------------------------------------------
(* The runner cache: goroutines matching concurrently against one Regexp.  *)
(* Every match takes a runner (popped from the cache under muRun, or newly *)
(* allocated when the cache is empty), scans with it, and pushes it back   *)
(* under muRun.                                                            *)

\* number of goroutines
NumProcs == 3

Procs == 1..NumProcs

\* held[g] while g has no runner
NoRunner == [id |-> 0, cached |-> FALSE]

\* the cache after its top runner has been popped, as left by a pop that
\* forgets to shrink the slice
PopKeepsRunner(cache) == cache

\* the cache after its top runner has been popped
PopRunner(cache) == SubSeq(cache, 1, Len(cache) - 1)

\* the cache after runner r has been pushed
PushRunner(cache, r) == Append(cache, r)

InitPool ==
    /\ s = <<>>
    /\ re = NoRegexp
    /\ pc = "start"
    /\ m = Nil
    /\ startAt = NoStart
    /\ hist = <<>>
    /\ out = NoOut
    /\ muRun = 0
    /\ runner = <<>>
    /\ gpc = [g \in Procs |-> "idle"]
    /\ held = [g \in Procs |-> NoRunner]
    /\ nAlloc = 0

CallerUnchanged == UNCHANGED <<s, re, pc, m, startAt, hist, out>>

\* acquisition: muRun.Lock()
GetLock(g) ==
    /\ gpc[g] = "idle"
    /\ muRun = 0
    /\ muRun' = g
    /\ gpc' = [gpc EXCEPT ![g] = "get"]
    /\ UNCHANGED <<runner, held, nAlloc>>
    /\ CallerUnchanged

\* acquisition with an idle runner in the cache: pop it, unlock
GetPop(g) ==
    /\ gpc[g] = "get"
    /\ Len(runner) > 0
    /\ held' = [held EXCEPT ![g] = [id |-> runner[Len(runner)], cached |-> TRUE]]
    /\ runner' = PopRunner(runner)
    /\ muRun' = 0
    /\ gpc' = [gpc EXCEPT ![g] = "scan"]
    /\ UNCHANGED nAlloc
    /\ CallerUnchanged

\* acquisition with an empty cache: unlock
GetMiss(g) ==
    /\ gpc[g] = "get"
    /\ Len(runner) = 0
    /\ muRun' = 0
    /\ gpc' = [gpc EXCEPT ![g] = "alloc"]
    /\ UNCHANGED <<runner, held, nAlloc>>
    /\ CallerUnchanged

\* ... and allocate a runner
Allocate(g) ==
    /\ gpc[g] = "alloc"
    /\ nAlloc' = nAlloc + 1
    /\ held' = [held EXCEPT ![g] = [id |-> nAlloc + 1, cached |-> FALSE]]
    /\ gpc' = [gpc EXCEPT ![g] = "scan"]
    /\ UNCHANGED <<muRun, runner>>
    /\ CallerUnchanged

\* the match has run to completion, to failure or to its timeout
ScanDone(g) ==
    /\ gpc[g] = "scan"
    /\ gpc' = [gpc EXCEPT ![g] = "release"]
    /\ UNCHANGED <<muRun, runner, held, nAlloc>>
    /\ CallerUnchanged

\* release: muRun.Lock()
PutLock(g) ==
    /\ gpc[g] = "release"
    /\ muRun = 0
    /\ muRun' = g
    /\ gpc' = [gpc EXCEPT ![g] = "put"]
    /\ UNCHANGED <<runner, held, nAlloc>>
    /\ CallerUnchanged

\* release: push the runner back, unlock
PutPush(g) ==
    /\ gpc[g] = "put"
    /\ runner' = PushRunner(runner, held[g].id)
    /\ held' = [held EXCEPT ![g] = NoRunner]
    /\ muRun' = 0
    /\ gpc' = [gpc EXCEPT ![g] = "idle"]
    /\ UNCHANGED nAlloc
    /\ CallerUnchanged

NextPool ==
    \E g \in Procs :
        \/ GetLock(g)
        \/ GetPop(g)
        \/ GetMiss(g)
        \/ Allocate(g)
        \/ ScanDone(g)
        \/ PutLock(g)
        \/ PutPush(g)

SpecPool == InitPool /\ [][NextPool]_vars

\* the goroutines that hold a runner: from its acquisition to its release
Holding(g) == held[g].id # 0

InCache(r) == \E i \in 1..Len(runner) : runner[i] = r

\* C9: runners are never shared mid-match: a runner is held by one match
\* attempt at a time and is not in the cache while held; the cache changes
\* only while muRun is held; muRun is never held while a match executes.
C9_RunnersNeverShared ==
    /\ [](\A g \in Procs :
             /\ gpc[g] \in {"scan", "release", "put"} => Holding(g)
             /\ Holding(g) =>
                    /\ ~InCache(held[g].id)
                    /\ \A h \in Procs \ {g} : held[h].id # held[g].id
             /\ gpc[g] = "scan" => muRun # g)
    /\ [][runner' # runner => muRun # 0]_vars

\* two matches execute at once, one of them on a runner taken from the cache
C9_ConcurrentMatches ==
    \E g, h \in Procs :
        /\ g # h
        /\ gpc[g] = "scan" /\ gpc[h] = "scan"
        /\ held[g].cached
        /\ muRun = 0

=============================================================================
